---- MODULE Spec2Model ----
(***************************************************************************)
(* A model of ChainMap and DeepChainMap (src/__init__.py).                 *)
(*                                                                         *)
(* Python mappings are objects with identity, and a ChainMap holds         *)
(* references to them.  The model therefore has a heap of dicts and a list *)
(* of ChainMap instances, each holding its class and its list `maps` of     *)
(* references into the heap.  The same dict may be held by several         *)
(* instances, and more than once by one instance.                          *)
(*                                                                         *)
(* Python indexes maps from 0, TLA+ sequences from 1: layer j of the       *)
(* source is maps[j + 1] here.                                             *)
(***************************************************************************)
EXTENDS Integers, Sequences, FiniteSets, TLC

\* The keys and values the callers use.
Keys == {"a", "b"}
Vals == {"v1", "v2"}
\* Python's None (the default of dict.fromkeys, of new_child's m and of get).
None == "None"
\* The default a caller passes to get and to pop: not a stored value.
Default == "default"

\* Bounds of the exploration.
MaxInst == 2        \* ChainMap instances ever constructed
MaxLayers == 2      \* mappings a caller passes to the constructor
MaxIter == 3        \* keys in the iterable a caller passes to fromkeys

Classes == {"ChainMap", "DeepChainMap"}

VARIABLES
    heap,       \* heap[r]: the contents of the dict with reference r
    insts,      \* insts[i]: [cls, maps], maps a sequence of references
    last,       \* the call that produced this state, and its outcome
    before,     \* the heap as it was when that call was made
    made        \* made[i]: the call that returned instance i, and on which

vars == <<heap, insts, last, before, made>>

Refs == 1..Len(heap)
Insts == 1..Len(insts)

-----------------------------------------------------------------------------
(* dict *)

EmptyDict == [x \in {} |-> None]

\* d[k] = v
DictSet(d, k, v) == [x \in (DOMAIN d) \cup {k} |-> IF x = k THEN v ELSE d[x]]

\* del d[k], for k in d
DictDel(d, k) == [x \in (DOMAIN d) \ {k} |-> d[x]]

\* dict.fromkeys ignoring the fill value
DictFromKeysNone(iterable, fill) ==
    [x \in {iterable[j] : j \in 1..Len(iterable)} |-> None]

\* dict.fromkeys(iterable, fill)
DictFromKeys(iterable, fill) ==
    [x \in {iterable[j] : j \in 1..Len(iterable)} |-> fill]

\* All dicts over Keys and Vals.
Dicts == UNION {[S -> Vals] : S \in SUBSET Keys}

Range(s) == {s[j] : j \in 1..Len(s)}

\* Sequences over S of length lo..hi.
SeqsOf(S, lo, hi) == UNION {[1..n -> S] : n \in lo..hi}

-----------------------------------------------------------------------------
(* The outcome of a call: a returned value or a raised KeyError. *)

Returned(v) == [exc |-> "none", val |-> v]
KeyError(arg) == [exc |-> "KeyError", val |-> arg]

FirstMappingMsg == "Key not found in the first mapping"
NoKeysMsg == "No keys found in the first mapping."

Call(op, self, key, arg, out) ==
    [op |-> op, self |-> self, key |-> key, arg |-> arg,
     exc |-> out.exc, val |-> out.val]

-----------------------------------------------------------------------------
(* Reads, as functions of the heap h and an instance's maps. *)

\* __missing__
Missing(key) == KeyError(key)

\* __getitem__: the first mapping, in order, that has the key.
RECURSIVE GetItemLoop(_, _, _)
GetItemLoop(h, maps, key) ==
    IF maps = <<>> THEN Missing(key)
    ELSE IF key \in DOMAIN h[Head(maps)]
         THEN Returned(h[Head(maps)][key])
         ELSE GetItemLoop(h, Tail(maps), key)

\* __getitem__ looking only in maps[0]
GetItemOfFirstOnly(h, maps, key) == GetItemLoop(h, <<maps[1]>>, key)

GetItemOf(h, maps, key) == GetItemLoop(h, maps, key)

\* __contains__
ContainsOf(h, maps, key) == \E j \in 1..Len(maps) : key \in DOMAIN h[maps[j]]

\* set().union(*self.maps)
KeySetOf(h, maps) == UNION {DOMAIN h[maps[j]] : j \in 1..Len(maps)}

\* __len__ adding up the sizes of the mappings
RECURSIVE LenOfSum(_, _)
LenOfSum(h, maps) ==
    IF maps = <<>> THEN 0
    ELSE Cardinality(DOMAIN h[Head(maps)]) + LenOfSum(h, Tail(maps))

\* __len__
LenOf(h, maps) == Cardinality(KeySetOf(h, maps))

\* __iter__: iter(set) yields every key of the set once, in an order of its
\* own; IterOf is the set of the sequences it may yield.
Orders(S) == {s \in SeqsOf(S, Cardinality(S), Cardinality(S)) : Range(s) = S}
IterOf(h, maps) == Orders(KeySetOf(h, maps))

\* __bool__ looking at maps[0] only
BoolOfFirst(h, maps) == h[maps[1]] # EmptyDict

\* __bool__
BoolOf(h, maps) == \E j \in 1..Len(maps) : h[maps[j]] # EmptyDict

\* bool(self): Python 3 calls __bool__; Python 2, which this module is
\* written for, knows no __bool__ and, the class having no __nonzero__,
\* calls __len__.
TruthOf(h, maps) == {BoolOf(h, maps), LenOf(h, maps) # 0}

\* get as self[key], whatever the default
GetOfStrict(h, maps, key, default) == GetItemOf(h, maps, key)

\* get
GetOf(h, maps, key, default) ==
    IF ContainsOf(h, maps, key) THEN GetItemOf(h, maps, key) ELSE Returned(default)

-----------------------------------------------------------------------------
(* Construction. *)

\* __init__ without the `or [{}]`
InitMapsAsGiven(h, args) == args

\* __init__: self.maps = list(maps) or [{}]
InitMaps(h, args) == IF args = <<>> THEN <<Len(h) + 1>> ELSE args
InitHeap(h, args) == IF args = <<>> THEN Append(h, EmptyDict) ELSE h

\* cls(*args), on the heap h the caller has prepared, in the call `by` on
\* instance `of` (0: on the class).
NewInstance(cls, h, args, by, of) ==
    /\ Len(insts) < MaxInst
    /\ heap' = InitHeap(h, args)
    /\ before' = heap
    /\ insts' = Append(insts, [cls |-> cls, maps |-> InitMaps(h, args)])
    /\ made' = Append(made, [by |-> by, of |-> of])

\* The arguments copy, new_child and parents pass to the constructor, m and
\* c being the references of the mapping they put first.  (CopyArgsShared:
\* copy passing maps[0] itself; ParentsArgsFresh: parents passing no mapping
\* of the original.)
CopyArgsShared(maps, c) == maps
CopyArgs(maps, c) == <<c>> \o Tail(maps)
NewChildArgs(maps, m) == <<m>> \o Tail(maps)
ParentsArgsFresh(maps) == <<>>
ParentsArgs(maps) == Tail(maps)

-----------------------------------------------------------------------------

Init ==
    /\ heap = <<>>
    /\ insts = <<>>
    /\ last = Call("start", 0, None, None, Returned(None))
    /\ before = <<>>
    /\ made = <<>>

\* The position of the first occurrence of r in args.
FirstAt(args, r) == CHOOSE j \in 1..Len(args) :
    args[j] = r /\ \A l \in 1..(j - 1) : args[l] # r

\* The caller's argument lists: the caller makes the dicts ds and passes args,
\* references to dicts that exist already or to those of ds; every dict of ds
\* is passed, and ds lists them in the order in which args first names them.
IsArgs(h, ds, args) ==
    /\ \A j \in 1..Len(args) : args[j] \in 1..(Len(h) + Len(ds))
    /\ \A n \in 1..Len(ds) : \E j \in 1..Len(args) : args[j] = Len(h) + n
    /\ \A n, o \in 1..Len(ds) :
           n < o => FirstAt(args, Len(h) + n) < FirstAt(args, Len(h) + o)

\* cls(*args), the caller having made the dicts ds
Construct(cls, ds, args) ==
    /\ insts = <<>>
    /\ IsArgs(heap, ds, args)
    /\ NewInstance(cls, heap \o ds, args, "init", 0)
    /\ last' = Call("init", Len(insts) + 1, None, args, Returned(None))

\* cls.fromkeys(iterable, *fill)
FromKeys(cls, iterable, fill) ==
    /\ insts = <<>>
    /\ NewInstance(cls, Append(heap, DictFromKeys(iterable, fill)),
                   <<Len(heap) + 1>>, "fromkeys", 0)
    /\ last' = Call("fromkeys", Len(insts) + 1, None, iterable, Returned(fill))

\* self.copy()
Copy(i) ==
    /\ NewInstance(insts[i].cls, Append(heap, heap[insts[i].maps[1]]),
                   CopyArgs(insts[i].maps, Len(heap) + 1), "copy", i)
    /\ last' = Call("copy", i, None, None, Returned(Len(insts) + 1))

\* self.new_child(m), m a reference to a dict that exists already or to the
\* one dict of ds, which the caller has made
NewChild(i, ds, m) ==
    /\ IsArgs(heap, ds, <<m>>)
    /\ NewInstance(insts[i].cls, heap \o ds, NewChildArgs(insts[i].maps, m),
                   "new_child", i)
    /\ last' = Call("new_child", i, None, m, Returned(Len(insts) + 1))

\* self.new_child(): m = {}
NewChildNone(i) ==
    /\ NewInstance(insts[i].cls, Append(heap, EmptyDict),
                   NewChildArgs(insts[i].maps, Len(heap) + 1), "new_child", i)
    /\ last' = Call("new_child", i, None, 0, Returned(Len(insts) + 1))

\* self.parents
Parents(i) ==
    /\ NewInstance(insts[i].cls, heap, ParentsArgs(insts[i].maps), "parents", i)
    /\ last' = Call("parents", i, None, None, Returned(Len(insts) + 1))

-----------------------------------------------------------------------------
(* Writes, as functions of the heap: the heap after the call and its outcome. *)

Effect(h, out) == [heap |-> h, out |-> out]

\* ChainMap.__setitem__: self.maps[0][key] = value
SetItemBase(h, maps, key, value) ==
    Effect([h EXCEPT ![maps[1]] = DictSet(@, key, value)], Returned(None))

\* ChainMap.__delitem__
DelItemBase(h, maps, key) ==
    IF key \in DOMAIN h[maps[1]]
    THEN Effect([h EXCEPT ![maps[1]] = DictDel(@, key)], Returned(None))
    ELSE Effect(h, KeyError(<<FirstMappingMsg, key>>))

\* DeepChainMap.__setitem__: the loop over self.maps[j..], then maps[0]
RECURSIVE SetItemDeepLoop(_, _, _, _, _)
SetItemDeepLoop(h, maps, j, key, value) ==
    IF j > Len(maps)
    THEN Effect([h EXCEPT ![maps[1]] = DictSet(@, key, value)], Returned(None))
    ELSE IF key \in DOMAIN h[maps[j]]
         THEN Effect([h EXCEPT ![maps[j]] = DictSet(@, key, value)],
                     Returned(None))
         ELSE SetItemDeepLoop(h, maps, j + 1, key, value)

SetItemDeep(h, maps, key, value) == SetItemDeepLoop(h, maps, 1, key, value)

\* DeepChainMap.__delitem__
RECURSIVE DelItemDeepLoop(_, _, _, _)
DelItemDeepLoop(h, maps, j, key) ==
    IF j > Len(maps)
    THEN Effect(h, KeyError(key))
    ELSE IF key \in DOMAIN h[maps[j]]
         THEN Effect([h EXCEPT ![maps[j]] = DictDel(@, key)], Returned(None))
         ELSE DelItemDeepLoop(h, maps, j + 1, key)

DelItemDeep(h, maps, key) == DelItemDeepLoop(h, maps, 1, key)

\* __setitem__ writing the last mapping
SetItemOfLastLayer(cls, h, maps, key, value) ==
    Effect([h EXCEPT ![maps[Len(maps)]] = DictSet(@, key, value)], Returned(None))

\* __setitem__ resolved to DeepChainMap's, or to ChainMap's, for both classes
SetItemOfAlwaysDeep(cls, h, maps, key, value) == SetItemDeep(h, maps, key, value)
SetItemOfAlwaysBase(cls, h, maps, key, value) == SetItemBase(h, maps, key, value)

\* Method resolution: DeepChainMap overrides __setitem__ and __delitem__.
SetItemOf(cls, h, maps, key, value) ==
    IF cls = "DeepChainMap" THEN SetItemDeep(h, maps, key, value)
    ELSE SetItemBase(h, maps, key, value)

\* __delitem__ resolved to DeepChainMap's, or to ChainMap's, for both classes
DelItemOfAlwaysDeep(cls, h, maps, key) == DelItemDeep(h, maps, key)
DelItemOfAlwaysBase(cls, h, maps, key) == DelItemBase(h, maps, key)

DelItemOf(cls, h, maps, key) ==
    IF cls = "DeepChainMap" THEN DelItemDeep(h, maps, key)
    ELSE DelItemBase(h, maps, key)

\* popitem taking its item from the first mapping that is not empty
PopItemOfAnyLayer(h, maps, k) ==
    IF \A j \in 1..Len(maps) : h[maps[j]] = EmptyDict
    THEN Effect(h, KeyError(NoKeysMsg))
    ELSE LET j == CHOOSE n \in 1..Len(maps) :
                      /\ h[maps[n]] # EmptyDict
                      /\ \A l \in 1..(n - 1) : h[maps[l]] = EmptyDict
             x == IF k \in DOMAIN h[maps[j]] THEN k
                  ELSE CHOOSE y \in DOMAIN h[maps[j]] : TRUE
         IN  Effect([h EXCEPT ![maps[j]] = DictDel(@, x)],
                    Returned(<<x, h[maps[j]][x]>>))

\* popitem, k being the key dict.popitem picks when maps[0] is not empty
PopItemOf(h, maps, k) ==
    IF h[maps[1]] = EmptyDict
    THEN Effect(h, KeyError(NoKeysMsg))
    ELSE Effect([h EXCEPT ![maps[1]] = DictDel(@, k)],
                Returned(<<k, h[maps[1]][k]>>))

\* pop taking the key from the first mapping that has it
PopOfAnyLayer(h, maps, key, args) ==
    IF \E j \in 1..Len(maps) : key \in DOMAIN h[maps[j]]
    THEN LET j == CHOOSE n \in 1..Len(maps) :
                      /\ key \in DOMAIN h[maps[n]]
                      /\ \A l \in 1..(n - 1) : key \notin DOMAIN h[maps[l]]
         IN  Effect([h EXCEPT ![maps[j]] = DictDel(@, key)],
                    Returned(h[maps[j]][key]))
    ELSE IF args # <<>>
         THEN Effect(h, Returned(args[1]))
         ELSE Effect(h, KeyError(<<FirstMappingMsg, key>>))

\* pop(key, *args), args being <<>> or <<default>>
PopOf(h, maps, key, args) ==
    IF key \in DOMAIN h[maps[1]]
    THEN Effect([h EXCEPT ![maps[1]] = DictDel(@, key)],
                Returned(h[maps[1]][key]))
    ELSE IF args # <<>>
         THEN Effect(h, Returned(args[1]))
         ELSE Effect(h, KeyError(<<FirstMappingMsg, key>>))

\* clear emptying every mapping of maps
ClearOfAll(h, maps) ==
    Effect([r \in DOMAIN h |-> IF r \in Range(maps) THEN EmptyDict ELSE h[r]],
           Returned(None))

\* clear
ClearOf(h, maps) == Effect([h EXCEPT ![maps[1]] = EmptyDict], Returned(None))

-----------------------------------------------------------------------------
(* The calls on an instance. *)

Write(op, i, key, arg, eff) ==
    /\ heap' = eff.heap
    /\ before' = heap
    /\ UNCHANGED <<insts, made>>
    /\ last' = Call(op, i, key, arg, eff.out)

Read(op, i, key, arg, out) ==
    /\ UNCHANGED <<heap, insts, made>>
    /\ before' = heap
    /\ last' = Call(op, i, key, arg, out)

\* self[key] = value
SetItem(i, key, value) ==
    Write("setitem", i, key, value,
          SetItemOf(insts[i].cls, heap, insts[i].maps, key, value))

\* del self[key]
DelItem(i, key) ==
    Write("delitem", i, key, None, DelItemOf(insts[i].cls, heap, insts[i].maps, key))

\* self.popitem()
PopItem(i) ==
    \/ /\ heap[insts[i].maps[1]] = EmptyDict
       /\ Write("popitem", i, None, None, PopItemOf(heap, insts[i].maps, None))
    \/ \E k \in DOMAIN heap[insts[i].maps[1]] :
           Write("popitem", i, None, None, PopItemOf(heap, insts[i].maps, k))

\* self.pop(key, *args)
Pop(i, key, args) ==
    Write("pop", i, key, args, PopOf(heap, insts[i].maps, key, args))

\* self.clear()
Clear(i) == Write("clear", i, None, None, ClearOf(heap, insts[i].maps))

\* self[key]
GetItem(i, key) ==
    Read("getitem", i, key, None, GetItemOf(heap, insts[i].maps, key))

\* self.get(key, default)
Get(i, key, default) ==
    Read("get", i, key, default, GetOf(heap, insts[i].maps, key, default))

\* key in self
Contains(i, key) ==
    Read("contains", i, key, None, Returned(ContainsOf(heap, insts[i].maps, key)))

\* len(self)
LenCall(i) == Read("len", i, None, None, Returned(LenOf(heap, insts[i].maps)))

\* list(iter(self)): the keys in the order they are yielded
Iter(i) ==
    \E s \in IterOf(heap, insts[i].maps) : Read("iter", i, None, None, Returned(s))

\* bool(self)
Bool(i) ==
    \E b \in TruthOf(heap, insts[i].maps) : Read("bool", i, None, None, Returned(b))

\* d[key] = value by the caller, on a dict d it has passed as a mapping: the
\* mappings are the caller's own objects (self.maps[j][key] = value).
DirectSet(r, key, value) ==
    /\ \E i \in Insts : r \in Range(insts[i].maps)
    /\ heap' = [heap EXCEPT ![r] = DictSet(@, key, value)]
    /\ before' = heap
    /\ UNCHANGED <<insts, made>>
    /\ last' = Call("direct", 0, key, <<r, value>>, Returned(None))

-----------------------------------------------------------------------------

Next ==
    \/ /\ insts = <<>>
       /\ \E args \in SeqsOf(1..MaxLayers, 0, MaxLayers) :
          \E ds \in SeqsOf(Dicts, 0, Cardinality(Range(args) \ Refs)) :
          \E cls \in Classes : Construct(cls, ds, args)
    \/ /\ insts = <<>>
       /\ \E cls \in Classes, iterable \in SeqsOf(Keys, 0, MaxIter),
             fill \in Vals \cup {None} : FromKeys(cls, iterable, fill)
    \/ \E i \in Insts : Copy(i)
    \/ \E i \in Insts, m \in 1..(Len(heap) + 1) :
       \E ds \in SeqsOf(Dicts, 0, Cardinality({m} \ Refs)) : NewChild(i, ds, m)
    \/ \E i \in Insts : NewChildNone(i)
    \/ \E i \in Insts : Parents(i)
    \/ \E i \in Insts, key \in Keys, value \in Vals : SetItem(i, key, value)
    \/ \E i \in Insts, key \in Keys : DelItem(i, key)
    \/ \E i \in Insts : PopItem(i)
    \/ \E i \in Insts, key \in Keys, args \in {<<>>, <<Default>>} : Pop(i, key, args)
    \/ \E i \in Insts : Clear(i)
    \/ \E i \in Insts, key \in Keys : GetItem(i, key)
    \/ \E i \in Insts, key \in Keys : Get(i, key, Default)
    \/ \E i \in Insts, key \in Keys : Contains(i, key)
    \/ \E i \in Insts : LenCall(i)
    \/ \E i \in Insts : Iter(i)
    \/ \E i \in Insts : Bool(i)
    \/ \E r \in Refs, key \in Keys, value \in Vals : DirectSet(r, key, value)

Spec == Init /\ [][Next]_vars

\* The calls on one instance: a caller that constructs a ChainMap and uses it,
\* without deriving another from it.
NextOne ==
    \/ /\ insts = <<>>
       /\ \E args \in SeqsOf(1..MaxLayers, 0, MaxLayers) :
          \E ds \in SeqsOf(Dicts, 0, Cardinality(Range(args) \ Refs)) :
          \E cls \in Classes : Construct(cls, ds, args)
    \/ /\ insts = <<>>
       /\ \E cls \in Classes, iterable \in SeqsOf(Keys, 0, MaxIter),
             fill \in Vals \cup {None} : FromKeys(cls, iterable, fill)
    \/ \E i \in Insts, key \in Keys, value \in Vals : SetItem(i, key, value)
    \/ \E i \in Insts, key \in Keys : DelItem(i, key)
    \/ \E i \in Insts : PopItem(i)
    \/ \E i \in Insts, key \in Keys, args \in {<<>>, <<Default>>} : Pop(i, key, args)
    \/ \E i \in Insts : Clear(i)
    \/ \E i \in Insts, key \in Keys : GetItem(i, key)
    \/ \E i \in Insts, key \in Keys : Get(i, key, Default)
    \/ \E i \in Insts, key \in Keys : Contains(i, key)
    \/ \E i \in Insts : LenCall(i)
    \/ \E i \in Insts : Iter(i)
    \/ \E i \in Insts : Bool(i)

SpecOne == Init /\ [][NextOne]_vars

-----------------------------------------------------------------------------
(* What the claims speak of. *)

\* The instance the last call was made on, its maps and its layers.
SelfMaps == insts[last.self].maps
SelfCls == insts[last.self].cls
OnInstance(op) == last.op = op /\ last.self \in Insts

\* Layer j of the source is maps[j + 1].
Layer(h, maps, j) == h[maps[j + 1]]
NLayers(maps) == Len(maps)

\* The lowest-indexed layer of maps that contains key, when one does.
LowestLayer(h, maps, key) ==
    CHOOSE j \in 0..(NLayers(maps) - 1) :
        /\ key \in DOMAIN Layer(h, maps, j)
        /\ \A l \in 0..(j - 1) : key \notin DOMAIN Layer(h, maps, l)

SomeLayerHas(h, maps, key) ==
    \E j \in 0..(NLayers(maps) - 1) : key \in DOMAIN Layer(h, maps, j)

WriteOps == {"setitem", "delitem", "popitem", "pop", "clear"}

-----------------------------------------------------------------------------
\* C1: self[key] succeeds iff `key in self` is true; when it succeeds it
\* returns the value of the lowest-indexed layer that contains key, and when
\* no layer contains key it raises KeyError(key).
C1_GetItem ==
    OnInstance("getitem") =>
        /\ (last.exc = "none") <=> ContainsOf(heap, SelfMaps, last.key)
        /\ SomeLayerHas(heap, SelfMaps, last.key) =>
               /\ last.exc = "none"
               /\ last.val = Layer(heap, SelfMaps,
                                   LowestLayer(heap, SelfMaps, last.key))[last.key]
        /\ ~SomeLayerHas(heap, SelfMaps, last.key) =>
               /\ last.exc = "KeyError"
               /\ last.val = last.key

\* C1: a lookup answered by layer 1, layer 0 not having the key.
C1_Witness ==
    /\ OnInstance("getitem")
    /\ NLayers(SelfMaps) = 2
    /\ last.key \notin DOMAIN Layer(heap, SelfMaps, 0)
    /\ last.key \in DOMAIN Layer(heap, SelfMaps, 1)
    /\ last.exc = "none"

\* C2: new_child(m) on layers [L0, ..., Ln-1] returns an instance whose layers
\* are [m, L0, ..., Ln-1]; without an argument m is a new empty mapping.
C2_NewChildKeepsAllLayers ==
    OnInstance("new_child") =>
        LET m == IF last.arg = 0 THEN Len(before) + 1 ELSE last.arg
        IN  /\ insts[last.val].maps = <<m>> \o SelfMaps
            /\ last.arg = 0 => heap[m] = EmptyDict
            /\ \A r \in 1..Len(before) : heap[r] = before[r]

\* C3: the parents view of M.new_child(m) has the layer sequence of M.
C3_ParentsOfNewChild ==
    OnInstance("new_child") =>
        InitMaps(heap, ParentsArgs(insts[last.val].maps)) = SelfMaps

\* C4: on a ChainMap, after self[key] = value, self[key] returns value and
\* layer 0 itself maps key to value, whatever the deeper layers hold.
C4_SetThenGet ==
    (OnInstance("setitem") /\ SelfCls = "ChainMap") =>
        /\ GetItemOf(heap, SelfMaps, last.key) = Returned(last.arg)
        /\ last.key \in DOMAIN Layer(heap, SelfMaps, 0)
        /\ Layer(heap, SelfMaps, 0)[last.key] = last.arg

\* C4: a set of a key that layer 0 did not have and layer 1 had, with
\* another value.
C4_Witness ==
    /\ OnInstance("setitem") /\ SelfCls = "ChainMap"
    /\ NLayers(SelfMaps) = 2
    /\ last.key \notin DOMAIN Layer(before, SelfMaps, 0)
    /\ last.key \in DOMAIN Layer(before, SelfMaps, 1)
    /\ Layer(before, SelfMaps, 1)[last.key] # last.arg

\* The layers of maps other than layer i, by position, and those that are
\* another dict than layer i.
OtherLayers(maps, i) == (0..(NLayers(maps) - 1)) \ {i}
OtherDicts(maps, i) == {j \in OtherLayers(maps, i) : maps[j + 1] # maps[i + 1]}

SameLayers(maps, js) == \A j \in js : Layer(heap, maps, j) = Layer(before, maps, j)

OnClass(ops, cls) == last.op \in ops /\ last.self \in Insts /\ SelfCls = cls

\* The lowest-indexed layer among js that contains key, when one does.
LowestAmong(h, maps, js, key) ==
    CHOOSE j \in js :
        /\ key \in DOMAIN Layer(h, maps, j)
        /\ \A l \in js : l < j => key \notin DOMAIN Layer(h, maps, l)

C6_Delete(js) ==
    OnClass({"delitem"}, "ChainMap") =>
        IF last.key \notin DOMAIN Layer(before, SelfMaps, 0)
        THEN /\ last.exc = "KeyError"
             /\ heap = before
        ELSE /\ last.exc = "none"
             /\ Layer(heap, SelfMaps, 0) = DictDel(Layer(before, SelfMaps, 0), last.key)
             /\ SameLayers(SelfMaps, js)
             /\ (\E j \in js : last.key \in DOMAIN Layer(before, SelfMaps, j)) =>
                    GetItemOf(heap, SelfMaps, last.key) =
                        Returned(Layer(before, SelfMaps,
                                       LowestAmong(before, SelfMaps, js, last.key))[last.key])

\* C6, as claimed: del self[key] on a ChainMap raises KeyError when layer 0
\* does not have key, whatever the deeper layers hold, and then changes no
\* layer; when layer 0 has key it removes it from layer 0 only, and a deeper
\* layer that has key keeps it and gives the value self[key] now returns.
C6_DeleteLayer0Only == C6_Delete(OtherLayers(SelfMaps, 0))

\* C6, amended: the same, the deeper layers that keep key being those that
\* are another dict than layer 0.
C6_DeleteLayer0Dict == C6_Delete(OtherDicts(SelfMaps, 0))

\* C6: a delete of a key that layer 0 and layer 1, another dict, both had.
C6_Witness ==
    /\ OnClass({"delitem"}, "ChainMap")
    /\ OtherDicts(SelfMaps, 0) = {1}
    /\ last.key \in DOMAIN Layer(before, SelfMaps, 0)
    /\ last.key \in DOMAIN Layer(before, SelfMaps, 1)
    /\ Layer(before, SelfMaps, 0)[last.key] # Layer(before, SelfMaps, 1)[last.key]
    /\ last.exc = "none"

\* The layer DeepChainMap's __setitem__ and __delitem__ act on: the lowest
\* that has the key, layer 0 when none has.
Home(maps, key) ==
    IF SomeLayerHas(before, maps, key) THEN LowestLayer(before, maps, key) ELSE 0

\* What C7 says of self[key] = value on a DeepChainMap, Others(maps, i) being
\* the layers that are to stay as they were when layer i is written.
C7_Set(Others(_, _)) ==
    OnClass({"setitem"}, "DeepChainMap") =>
        LET i == Home(SelfMaps, last.key)
        IN  /\ Layer(heap, SelfMaps, i) =
                   DictSet(Layer(before, SelfMaps, i), last.key, last.arg)
            /\ SameLayers(SelfMaps, Others(SelfMaps, i))
            /\ last.exc = "none"

\* C7, as claimed: on a DeepChainMap, self[key] = value overwrites key in the
\* lowest-indexed layer that has it and leaves every other layer as it was;
\* when no layer has key it creates key in layer 0 and changes no other layer.
C7_DeepSetOneLayer == C7_Set(OtherLayers)

\* C7, amended: the same, the layers left as they were being those that are
\* another dict than the layer written.
C7_DeepSetOneDict ==
    /\ C7_Set(OtherDicts)
    /\ OnClass({"setitem"}, "DeepChainMap") =>
           \A r \in 1..Len(before) :
               r # SelfMaps[Home(SelfMaps, last.key) + 1] => heap[r] = before[r]

\* C7: a set of a key that only layer 1, another dict than layer 0, had, with
\* another value.
C7_Witness ==
    /\ OnClass({"setitem"}, "DeepChainMap")
    /\ OtherDicts(SelfMaps, 0) = {1}
    /\ last.key \notin DOMAIN Layer(before, SelfMaps, 0)
    /\ last.key \in DOMAIN Layer(before, SelfMaps, 1)
    /\ Layer(before, SelfMaps, 1)[last.key] # last.arg

\* What C8 says of del self[key] on a DeepChainMap.
C8_Delete(Others(_, _)) ==
    OnClass({"delitem"}, "DeepChainMap") =>
        /\ (last.exc = "none") <=> ContainsOf(before, SelfMaps, last.key)
        /\ IF SomeLayerHas(before, SelfMaps, last.key)
           THEN LET i == LowestLayer(before, SelfMaps, last.key)
                IN  /\ last.exc = "none"
                    /\ Layer(heap, SelfMaps, i) =
                           DictDel(Layer(before, SelfMaps, i), last.key)
                    /\ SameLayers(SelfMaps, Others(SelfMaps, i))
           ELSE /\ last.exc = "KeyError"
                /\ last.val = last.key
                /\ heap = before

\* C8, as claimed: on a DeepChainMap, del self[key] removes key from the
\* lowest-indexed layer that has it and from no other layer; it raises
\* KeyError(key), changing nothing, iff no layer has key, so it succeeds
\* exactly when `key in self` is true.
C8_DeepDeleteOneLayer == C8_Delete(OtherLayers)

\* C8, amended: the same, the layers that keep key being those that are
\* another dict than the layer it is removed from.
C8_DeepDeleteOneDict ==
    /\ C8_Delete(OtherDicts)
    /\ (OnClass({"delitem"}, "DeepChainMap") /\ last.exc = "none") =>
           \A r \in 1..Len(before) :
               r # SelfMaps[Home(SelfMaps, last.key) + 1] => heap[r] = before[r]

\* C8: a delete of a key that layer 0 and layer 1, another dict, both had.
C8_Witness ==
    /\ OnClass({"delitem"}, "DeepChainMap")
    /\ OtherDicts(SelfMaps, 0) = {1}
    /\ last.key \in DOMAIN Layer(before, SelfMaps, 0)
    /\ last.key \in DOMAIN Layer(before, SelfMaps, 1)
    /\ last.exc = "none"

\* What a caller reads through an instance: the outcome of self[key] for
\* every key.
View(h, maps) == [k \in Keys |-> GetItemOf(h, maps, k)]

\* The call last wrote the dict that is layer 0 of the instance it was made on.
WroteLayer0 ==
    /\ last.op \in WriteOps /\ last.self \in Insts
    /\ \A r \in 1..Len(before) : r # SelfMaps[1] => heap[r] = before[r]

\* i and o are an instance and its copy, either way round.
CopyPair(i, o) ==
    \/ made[o].by = "copy" /\ made[o].of = i
    \/ made[i].by = "copy" /\ made[i].of = o

\* What C9 says of the copy itself: an instance of the same class, whose layer
\* 0 is a new dict with the entries of the original's layer 0 and whose
\* layers 1..n-1 are the original's very dicts, so that a change to one of
\* them shows through both.
C9_CopyMade ==
    OnInstance("copy") =>
        LET c == insts[last.val]
        IN  /\ c.cls = SelfCls
            /\ NLayers(c.maps) = NLayers(SelfMaps)
            /\ c.maps[1] \notin 1..Len(before)
            /\ Layer(heap, c.maps, 0) = Layer(before, SelfMaps, 0)
            /\ \A j \in 1..(NLayers(SelfMaps) - 1) : c.maps[j + 1] = SelfMaps[j + 1]
            /\ \A r \in 1..Len(before) : heap[r] = before[r]

\* C9, as claimed: copy is as C9_CopyMade says, and thereafter a set, delete,
\* pop, popitem or clear that writes layer 0 of one of the two instances
\* changes nothing of what is read through the other.
C9_CopyIsolated ==
    /\ C9_CopyMade
    /\ WroteLayer0 =>
           \A o \in Insts :
               CopyPair(last.self, o) =>
                   View(heap, insts[o].maps) = View(before, insts[o].maps)

\* C9, amended: copy is as C9_CopyMade says, and thereafter such a write
\* leaves the other instance's layer 0 as it was, and changes nothing of
\* what is read through the other instance unless the dict written is also
\* one of the layers 1..n-1 the two share.
C9_CopyLayer0Isolated ==
    /\ C9_CopyMade
    /\ WroteLayer0 =>
           \A o \in Insts :
               CopyPair(last.self, o) =>
                   /\ Layer(heap, insts[o].maps, 0) = Layer(before, insts[o].maps, 0)
                   /\ SelfMaps[1] \notin Range(insts[o].maps) =>
                          View(heap, insts[o].maps) = View(before, insts[o].maps)

\* C9: a write to layer 0 of a copy of an instance of two dicts, which changed
\* what is read through the copy and left it other than what is read through
\* the original.
C9_Witness ==
    /\ WroteLayer0
    /\ made[last.self].by = "copy"
    /\ NLayers(SelfMaps) = 2
    /\ OtherDicts(insts[made[last.self].of].maps, 0) = {1}
    /\ Layer(heap, SelfMaps, 1) # EmptyDict
    /\ View(heap, SelfMaps) # View(before, SelfMaps)
    /\ View(heap, insts[made[last.self].of].maps) # View(heap, SelfMaps)

\* C10: every instance has at least one layer, each a dict; cls() has exactly
\* one layer, an empty dict, and so has the parents of a one-layer instance.
C10_AtLeastOneLayer ==
    /\ \A i \in Insts :
           /\ NLayers(insts[i].maps) >= 1
           /\ Range(insts[i].maps) \subseteq Refs
    /\ (OnInstance("init") /\ last.arg = <<>>) =>
           /\ NLayers(SelfMaps) = 1
           /\ Layer(heap, SelfMaps, 0) = EmptyDict
    /\ (OnInstance("parents") /\ NLayers(SelfMaps) = 1) =>
           /\ NLayers(insts[last.val].maps) = 1
           /\ Layer(heap, insts[last.val].maps, 0) = EmptyDict
           /\ insts[last.val].maps[1] \notin 1..Len(before)

\* C10: the parents of a one-layer instance whose layer is not empty.
C10_Witness ==
    /\ OnInstance("parents")
    /\ NLayers(SelfMaps) = 1
    /\ Layer(heap, SelfMaps, 0) # EmptyDict
    /\ NLayers(insts[last.val].maps) = 1

\* The keys that some layer of maps contains.
UnionKeys(h, maps) == {k \in Keys : SomeLayerHas(h, maps, k)}

\* C11: len(self) is the number of distinct keys of the union of the layers,
\* a key of several layers counting once, and iterating self yields exactly
\* the keys of that union, each once; neither changes a layer.
C11_SizeAndKeys ==
    /\ OnInstance("len") =>
           /\ last.val = Cardinality(UnionKeys(heap, SelfMaps))
           /\ heap = before
    /\ OnInstance("iter") =>
           /\ Range(last.val) = UnionKeys(heap, SelfMaps)
           /\ \A m, n \in 1..Len(last.val) : last.val[m] = last.val[n] => m = n
           /\ heap = before

\* C11: the size of two layers that are two dicts with a key in common and a
\* key that only layer 1 has: 2, the layers having three entries.
C11_Witness ==
    /\ OnInstance("len")
    /\ OtherDicts(SelfMaps, 0) = {1}
    /\ DOMAIN Layer(heap, SelfMaps, 0) \cap DOMAIN Layer(heap, SelfMaps, 1) # {}
    /\ DOMAIN Layer(heap, SelfMaps, 1) \ DOMAIN Layer(heap, SelfMaps, 0) # {}
    /\ last.val = 2

\* The dicts the last call changed.
Changed == {r \in 1..Len(before) : heap[r] # before[r]}

\* The instance o was returned by the call `by` on instance i.
MadeBy(o, by, i) == made[o].by = by /\ made[o].of = i

\* C12: the layers of an instance are the very dicts it was given, never
\* copies.  The constructor and new_child hold the dict passed to them;
\* parents holds the original's layers 1..n-1, and copy and new_child hold
\* them after their own first layer.  So when a dict is changed, through an
\* instance or by the caller directly, every instance that holds it reads
\* the change: a key set in it is read with its new value through every
\* instance in which that dict is the first layer to have the key.
C12_SharedLayersLive ==
    /\ (OnInstance("init") /\ last.arg # <<>>) => SelfMaps = last.arg
    /\ (OnInstance("new_child") /\ last.arg # 0) => insts[last.val].maps[1] = last.arg
    /\ OnInstance("parents") => Len(heap) = Len(before) + (IF NLayers(SelfMaps) = 1 THEN 1 ELSE 0)
    /\ last.op \in {"copy", "new_child", "parents"} =>
           \A r \in 1..Len(before) : heap[r] = before[r]
    /\ \A o, i \in Insts :
           /\ (MadeBy(o, "parents", i) /\ NLayers(insts[i].maps) > 1) =>
                  insts[o].maps = Tail(insts[i].maps)
           /\ (MadeBy(o, "copy", i) \/ MadeBy(o, "new_child", i)) =>
                  Tail(insts[o].maps) = Tail(insts[i].maps)
    /\ \A o \in Insts, j \in 0..(MaxLayers + 1) :
           (j < NLayers(insts[o].maps) /\ insts[o].maps[j + 1] \in Changed) =>
               /\ Layer(heap, insts[o].maps, j) # Layer(before, insts[o].maps, j)
               /\ (/\ last.op \in {"setitem", "direct"}
                   /\ \A l \in 0..(j - 1) : last.key \notin DOMAIN Layer(heap, insts[o].maps, l))
                  => GetItemOf(heap, insts[o].maps, last.key) =
                         Returned(IF last.op = "direct" THEN last.arg[2] ELSE last.arg)

\* C12: a set through an instance of a key in a dict that is also a layer of
\* another instance, made from it by parents, through which the key is now
\* read with its new value and was not before.
C12_Witness ==
    /\ OnInstance("setitem")
    /\ \E o \in Insts :
           /\ MadeBy(o, "parents", last.self)
           /\ insts[o].maps[1] \in Changed
           /\ GetItemOf(heap, insts[o].maps, last.key) = Returned(last.arg)
           /\ GetItemOf(before, insts[o].maps, last.key) # Returned(last.arg)

\* C13: popitem removes an entry of layer 0 and returns it, and takes none
\* from another layer; when layer 0 is empty it raises the KeyError of an
\* empty first mapping, whatever the other layers hold, and changes no layer.
C13_PopItem ==
    OnInstance("popitem") =>
        IF Layer(before, SelfMaps, 0) = EmptyDict
        THEN /\ last.exc = "KeyError"
             /\ last.val = NoKeysMsg
             /\ heap = before
        ELSE /\ last.exc = "none"
             /\ last.val \in {<<k, Layer(before, SelfMaps, 0)[k]>> :
                                 k \in DOMAIN Layer(before, SelfMaps, 0)}
             /\ Layer(heap, SelfMaps, 0) =
                    DictDel(Layer(before, SelfMaps, 0), last.val[1])
             /\ \A r \in 1..Len(before) : r # SelfMaps[1] => heap[r] = before[r]

\* C13: a popitem on an empty layer 0, layer 1 being another dict, not empty.
C13_Witness ==
    /\ OnInstance("popitem")
    /\ OtherDicts(SelfMaps, 0) = {1}
    /\ Layer(before, SelfMaps, 0) = EmptyDict
    /\ Layer(before, SelfMaps, 1) # EmptyDict
    /\ last.exc = "KeyError"

\* C14: pop(key, *args) looks in layer 0 only.  When layer 0 has key it
\* removes it from layer 0 and returns its value; when it has not, pop
\* without a default raises a KeyError that names key, and pop with a
\* default returns the default, and neither changes a layer, whatever the
\* deeper layers hold.
C14_Pop ==
    OnInstance("pop") =>
        IF last.key \in DOMAIN Layer(before, SelfMaps, 0)
        THEN /\ last.exc = "none"
             /\ last.val = Layer(before, SelfMaps, 0)[last.key]
             /\ Layer(heap, SelfMaps, 0) =
                    DictDel(Layer(before, SelfMaps, 0), last.key)
             /\ \A r \in 1..Len(before) : r # SelfMaps[1] => heap[r] = before[r]
        ELSE /\ heap = before
             /\ IF last.arg = <<>>
                THEN /\ last.exc = "KeyError"
                     /\ last.val[2] = last.key
                ELSE /\ last.exc = "none"
                     /\ last.val = last.arg[1]

\* C14: a pop with a default of a key that layer 0 has not and layer 1 has.
C14_Witness ==
    /\ OnInstance("pop")
    /\ last.arg = <<Default>>
    /\ NLayers(SelfMaps) = 2
    /\ last.key \notin DOMAIN Layer(before, SelfMaps, 0)
    /\ last.key \in DOMAIN Layer(before, SelfMaps, 1)
    /\ last.val = Default

\* C15: get(key, default) never raises: it returns what self[key] returns
\* when some layer has key and default when none has, and changes no layer.
C15_GetOrDefault ==
    OnInstance("get") =>
        /\ last.exc = "none"
        /\ heap = before
        /\ IF SomeLayerHas(heap, SelfMaps, last.key)
           THEN Returned(last.val) = GetItemOf(heap, SelfMaps, last.key)
           ELSE last.val = last.arg

\* C15: a get of a key that no layer of two has, one of them not being empty.
C15_Witness ==
    /\ OnInstance("get")
    /\ NLayers(SelfMaps) = 2
    /\ Layer(heap, SelfMaps, 1) # EmptyDict
    /\ ~SomeLayerHas(heap, SelfMaps, last.key)
    /\ last.val = Default

\* Every layer of maps is empty.
AllEmpty(h, maps) == \A j \in 0..(NLayers(maps) - 1) : Layer(h, maps, j) = EmptyDict

\* C16: bool(self) is false iff every layer is empty, and agrees with
\* len(self) > 0; an instance constructed with no mapping, or with empty
\* ones only, is false, has length 0 and yields no key, and one constructed
\* with a mapping that is not empty is true.
C16_Truthiness ==
    /\ OnInstance("bool") =>
           /\ last.val = ~AllEmpty(heap, SelfMaps)
           /\ last.val = (LenOf(heap, SelfMaps) > 0)
           /\ heap = before
    /\ OnInstance("init") =>
           /\ TruthOf(heap, SelfMaps) = {~AllEmpty(heap, SelfMaps)}
           /\ AllEmpty(heap, SelfMaps) =>
                  /\ LenOf(heap, SelfMaps) = 0
                  /\ IterOf(heap, SelfMaps) = {<<>>}
           /\ last.arg = <<>> => AllEmpty(heap, SelfMaps)

\* C16: bool of an instance whose layer 0 is empty and whose layer 1 is not.
C16_Witness ==
    /\ OnInstance("bool")
    /\ NLayers(SelfMaps) = 2
    /\ Layer(heap, SelfMaps, 0) = EmptyDict
    /\ Layer(heap, SelfMaps, 1) # EmptyDict
    /\ last.val = TRUE

\* C17: cls.fromkeys(iterable, fill) returns an instance of one layer, a new
\* dict whose keys are the distinct elements of iterable, each mapped to
\* fill (None when no fill is passed).
C17_FromKeys ==
    OnInstance("fromkeys") =>
        LET d == Layer(heap, SelfMaps, 0)
        IN  /\ NLayers(SelfMaps) = 1
            /\ SelfMaps[1] \notin 1..Len(before)
            /\ \A j \in 1..Len(last.arg) : last.arg[j] \in DOMAIN d
            /\ \A k \in DOMAIN d : \E j \in 1..Len(last.arg) : last.arg[j] = k
            /\ \A k \in DOMAIN d : d[k] = last.val
            /\ last.exc = "none"

\* C17: fromkeys of three keys, two of them the same, with a fill value:
\* two entries.
C17_Witness ==
    /\ OnInstance("fromkeys")
    /\ Len(last.arg) = 3
    /\ last.arg[1] = last.arg[3]
    /\ last.arg[1] # last.arg[2]
    /\ last.val \in Vals
    /\ Cardinality(DOMAIN Layer(heap, SelfMaps, 0)) = 2

\* No key is in two of the layers js of maps, js a set of pairs of layers.
Disjoint(h, maps, js) ==
    \A p \in js : DOMAIN Layer(h, maps, p[1]) \cap DOMAIN Layer(h, maps, p[2]) = {}

\* The pairs of layers of maps, and those that are two dicts.
LayerPairs(maps) ==
    {p \in (0..(NLayers(maps) - 1)) \X (0..(NLayers(maps) - 1)) : p[1] < p[2]}
DictPairs(maps) == {p \in LayerPairs(maps) : maps[p[1] + 1] # maps[p[2] + 1]}

\* C18, as claimed: on a DeepChainMap whose layers have pairwise disjoint key
\* sets, set, delete, pop, popitem and clear leave them pairwise disjoint.
\* (A call leaves them so, hence every sequence of calls.)
C18_SingleHome ==
    (OnClass(WriteOps, "DeepChainMap") /\ Disjoint(before, SelfMaps, LayerPairs(SelfMaps)))
        => Disjoint(heap, SelfMaps, LayerPairs(SelfMaps))

\* C18, amended: the same of the layers that are two dicts: when no key is
\* in two dicts of the layers, none is after the call.
C18_SingleHomeDicts ==
    (OnClass(WriteOps, "DeepChainMap") /\ Disjoint(before, SelfMaps, DictPairs(SelfMaps)))
        => Disjoint(heap, SelfMaps, DictPairs(SelfMaps))

\* C18: a set, with another value, of a key that layer 1 had and layer 0,
\* another dict with a key of its own, had not.
C18_Witness ==
    /\ OnClass({"setitem"}, "DeepChainMap")
    /\ DictPairs(SelfMaps) = {<<0, 1>>}
    /\ Disjoint(before, SelfMaps, DictPairs(SelfMaps))
    /\ Layer(before, SelfMaps, 0) # EmptyDict
    /\ last.key \in DOMAIN Layer(before, SelfMaps, 1)
    /\ Layer(before, SelfMaps, 1)[last.key] # last.arg
    /\ Layer(heap, SelfMaps, 1)[last.key] = last.arg

\* C19: on a DeepChainMap, after self[key] = value, self[key] returns value;
\* when some layer had key, the keys and the length of self are what they
\* were, and when none had, key is added to the keys and the length grows
\* by one.
C19_DeepSetThenGet ==
    OnClass({"setitem"}, "DeepChainMap") =>
        /\ last.exc = "none"
        /\ GetItemOf(heap, SelfMaps, last.key) = Returned(last.arg)
        /\ IF SomeLayerHas(before, SelfMaps, last.key)
           THEN /\ KeySetOf(heap, SelfMaps) = KeySetOf(before, SelfMaps)
                /\ LenOf(heap, SelfMaps) = LenOf(before, SelfMaps)
           ELSE /\ KeySetOf(heap, SelfMaps) = KeySetOf(before, SelfMaps) \cup {last.key}
                /\ LenOf(heap, SelfMaps) = LenOf(before, SelfMaps) + 1

\* C19: a set of a key that only layer 1 had, with another value, the
\* length staying 2.
C19_Witness ==
    /\ OnClass({"setitem"}, "DeepChainMap")
    /\ OtherDicts(SelfMaps, 0) = {1}
    /\ last.key \notin DOMAIN Layer(before, SelfMaps, 0)
    /\ last.key \in DOMAIN Layer(before, SelfMaps, 1)
    /\ GetItemOf(before, SelfMaps, last.key) # Returned(last.arg)
    /\ LenOf(before, SelfMaps) = 2
    /\ LenOf(heap, SelfMaps) = 2

\* What C20 says of pop, popitem and clear on a DeepChainMap, the layers js
\* being those that are to stay as they were.
C20_Inherited(js) ==
    OnClass({"pop", "popitem", "clear"}, "DeepChainMap") =>
        /\ SameLayers(SelfMaps, js)
        /\ last.op = "clear" => Layer(heap, SelfMaps, 0) = EmptyDict
        /\ (/\ last.op = "pop" /\ last.arg = <<>>
            /\ last.key \notin DOMAIN Layer(before, SelfMaps, 0)
            /\ SomeLayerHas(before, SelfMaps, last.key)) =>
               LET i == LowestLayer(before, SelfMaps, last.key)
                   del == DelItemOf("DeepChainMap", before, SelfMaps, last.key)
               IN  /\ last.exc = "KeyError"
                   /\ last.val[2] = last.key
                   /\ heap = before
                   /\ del.out = Returned(None)
                   /\ Layer(del.heap, SelfMaps, i) =
                          DictDel(Layer(before, SelfMaps, i), last.key)

====
